---------------------------- MODULE Spec2Model ----------------------------
(***************************************************************************)
(* BERDL Chat (src/main.py): a question is turned into SQL by a language   *)
(* model, the SQL is run against the BERDL data service, and the result is *)
(* explained by the language model.                                        *)
(*                                                                         *)
(* Python strings are TLA+ strings (sequences of characters): upper(),     *)
(* strip(), "in", slicing and f-strings are computed character by          *)
(* character.  A Python dict is a function whose DOMAIN is its key set.    *)
(* A Python/JSON value whose type is not fixed (an environment variable    *)
(* that may be None, the "error" field of a response body) is a tagged     *)
(* record [t |-> type, v |-> value].                                       *)
(***************************************************************************)
EXTENDS Integers, Sequences, FiniteSets, TLC

VARIABLES
    environ,       \* os.environ after load_dotenv(): variable name -> string
    input_value,   \* input_field.value
    chat,          \* children of chat_container, in display order
    status_dot,    \* colour class of the connection indicator
    status_text,   \* text of the connection indicator
    timer_pending, \* the one-shot ui.timer has not fired yet
    frames,        \* handlers the event loop is running, with their locals
    turns,         \* number of turns started so far
    faults,        \* handlers ended by an uncaught exception: [turn, fn]
    call           \* the latest direct application of one of the three functions

vars == <<environ, input_value, chat, status_dot, status_text, timer_pending,
          frames, turns, faults, call>>

-----------------------------------------------------------------------------
(* Bounds of the model *)

MaxTurns == 2

MaxRows == 11

-----------------------------------------------------------------------------
(* Program constants *)

BERDL_API_URL == "https://hub.berdl.kbase.us/apis/mcp/delta/tables/query"

SCHEMA_CONTEXT == "You are a SQL assistant for the BERDL Data Lakehouse (NMDC microbiome data)."

QUERY_LIMIT == 100

QUERY_TIMEOUT == 30

SAMPLE_ROWS == 10

GENERATE_MAX_TOKENS == 500

EXPLAIN_MAX_TOKENS == 300

STATUS_CHARS == 50

MODEL_ID == "claude-sonnet-4-20250514"

DENYLIST == <<"DROP", "DELETE", "UPDATE", "INSERT", "ALTER">>

examples == <<"How many samples have plastic degradation?",
              "What kingdoms are in the taxonomy?",
              "Show samples with methanogenesis",
              "Count studies by ecosystem type">>

-----------------------------------------------------------------------------
(* Python values *)

PyNone == [t |-> "None", v |-> "None"]

PyStr(s) == [t |-> "str", v |-> s]

PyBool(b) == [t |-> "bool", v |-> b]

\* bool(x) of a tagged value
Truthy(x) ==
    CASE x.t = "None" -> FALSE
      [] x.t = "str" -> x.v # ""
      [] x.t = "bool" -> x.v

\* str(x) of a tagged value, as an f-string interpolates it
str(x) ==
    CASE x.t = "None" -> "None"
      [] x.t = "str" -> x.v
      [] x.t = "bool" -> IF x.v THEN "True" ELSE "False"

EmptyDict == [k \in {} |-> PyNone]

\* d.get(key, default)
get(d, key, default) == IF key \in DOMAIN d THEN d[key] ELSE default

\* os.getenv(name)
getenv(name) == IF name \in DOMAIN environ THEN PyStr(environ[name]) ELSE PyNone

Min(a, b) == IF a < b THEN a ELSE b

\* s[:n]
Prefix(s, n) == SubSeq(s, 1, Min(n, Len(s)))

\* sub in s
Contains(s, sub) ==
    \E i \in 1..(Len(s) - Len(sub) + 1) : SubSeq(s, i, i + Len(sub) - 1) = sub

LowerLetters == "abcdefghijklmnopqrstuvwxyz"

UpperLetters == "ABCDEFGHIJKLMNOPQRSTUVWXYZ"

UpperChar(c) ==
    LET hits == {i \in 1..Len(LowerLetters) : SubSeq(LowerLetters, i, i) = c}
    IN IF hits = {} THEN c
       ELSE LET i == CHOOSE j \in hits : TRUE IN SubSeq(UpperLetters, i, i)

RECURSIVE UpperFrom(_, _)
UpperFrom(s, i) ==
    IF i > Len(s) THEN ""
    ELSE UpperChar(SubSeq(s, i, i)) \o UpperFrom(s, i + 1)

\* s.upper()
upper(s) == UpperFrom(s, 1)

IsSpace(c) == c \in {" ", "\n", "\t"}

\* s.strip(): from the first to the last character that is no whitespace
strip(s) ==
    LET keep == {i \in 1..Len(s) : ~IsSpace(SubSeq(s, i, i))}
    IN IF keep = {} THEN ""
       ELSE SubSeq(s, CHOOSE i \in keep : \A j \in keep : i <= j,
                      CHOOSE i \in keep : \A j \in keep : i >= j)

\* repr of one result row {'count': n}
ReprRow(row) == "{'count': " \o ToString(row.count) \o "}"

RECURSIVE ReprRowsFrom(_, _)
ReprRowsFrom(rows, i) ==
    IF i > Len(rows) THEN ""
    ELSE ReprRow(rows[i]) \o (IF i < Len(rows) THEN ", " ELSE "")
         \o ReprRowsFrom(rows, i + 1)

\* str(rows) of a list of rows
ReprRows(rows) == "[" \o ReprRowsFrom(rows, 1) \o "]"

-----------------------------------------------------------------------------
(* The outside world: what the data service and the language model may do *)

\* result rows 1..n of a query
Rows(n) == [i \in 1..n |-> [count |-> i]]

RowCounts == {0, 1, SAMPLE_ROWS - 1, SAMPLE_ROWS, MaxRows}

\* "pagination" objects of a response that returned n rows
Paginations(n) == {[k \in {} |-> 0], [total_count |-> n], [total_count |-> n + QUERY_LIMIT]}

\* decoded response bodies that report success
SuccessBodies ==
    {[result |-> Rows(n)] : n \in RowCounts}
    \cup UNION {{[result |-> Rows(n), pagination |-> p] : p \in Paginations(n)} : n \in RowCounts}
    \cup {EmptyDict, [pagination |-> [total_count |-> 5]]}

\* decoded response bodies that carry an "error" or "error_type" field
ErrorBodies ==
    {[error |-> PyStr("bad_request"), message |-> PyStr("syntax error at or near FROM")],
     [error |-> PyBool(TRUE), error_type |-> PyStr("spark_error"), message |-> PyStr("table not found")],
     [error_type |-> PyStr("internal_error")],
     [error |-> PyStr("denied"), result |-> Rows(1)],
     [error |-> PyNone, result |-> Rows(1), pagination |-> [total_count |-> 1]],
     [error |-> PyStr(""), result |-> Rows(0)],
     [error |-> PyBool(FALSE), error_type |-> PyNone, result |-> Rows(1)]}

Bodies == SuccessBodies \cup ErrorBodies

\* outcomes of httpx.post(...) followed by response.json()
NetOutcomes ==
    {[kind |-> "timeout", text |-> "The read operation timed out"],
     [kind |-> "exception", text |-> "All connection attempts failed"],
     [kind |-> "exception", text |-> "Expecting value: line 1 column 1 (char 0)"],
     [kind |-> "list", text |-> "'list' object has no attribute 'get'"]}
    \cup {[kind |-> "dict", body |-> b] : b \in Bodies}

\* texts the language model may answer a generate_sql request with
SqlTexts ==
    {"SELECT kingdom FROM nmdc_core.taxonomy_dim LIMIT 20",
     "  select 1\n",
     "drop table t",
     "Delete from t",
     "UPDATE t SET a = 1",
     "insert into t values (1)",
     "aLtEr table t",
     "select updated_at from t",
     "select 'Insert coin'",
     "select dro p from t",
     " \n"}

\* texts the language model may answer an explain_results request with
ExplainTexts == {"We found 42 samples.", "\nThere are 3 kingdoms. "}

\* outcomes of client.messages.create(...)
LlmOutcomes(texts) ==
    {[kind |-> "text", text |-> t] : t \in texts}
    \cup {[kind |-> "raise", text |-> "Connection error."]}

\* values of the two credentials in the environment
EnvValues == {PyNone, PyStr(""), PyStr("secret")}

MakeEnv(kb, api) ==
    LET val(n) == IF n = "KB_AUTH_TOKEN" THEN kb ELSE api
    IN [n \in {m \in {"KB_AUTH_TOKEN", "ANTHROPIC_API_KEY"} : val(m) # PyNone} |-> val(n).v]

Environs == {MakeEnv(kb, api) : kb \in EnvValues, api \in EnvValues}

-----------------------------------------------------------------------------
(* query_berdl, lines 60-90.  The result of a function is [ret, raises,     *)
(* http, llm]: the value returned, whether an exception escaped, and the   *)
(* HTTP requests and language-model calls it issued, in order.             *)

\* faulty variant of denylisted: the keywords are sought in the text as given
denylisted_case_sensitive(sql) ==
    \E k \in 1..Len(DENYLIST) : Contains(sql, DENYLIST[k])

\* line 67
denylisted(sql) ==
    LET text == upper(sql)
    IN \E k \in 1..Len(DENYLIST) : Contains(text, DENYLIST[k])

\* lines 71-79: the request httpx.post sends
post_request(sql, token) ==
    [url |-> BERDL_API_URL,
     authorization |-> "Bearer " \o token.v,
     content_type |-> "application/json",
     query |-> sql,
     limit |-> QUERY_LIMIT,
     timeout |-> QUERY_TIMEOUT]

\* lines 83-86: the envelope made of a decoded body
check_api_error(data) ==
    IF Truthy(get(data, "error", PyNone)) \/ Truthy(get(data, "error_type", PyNone))
    THEN [error |-> get(data, "message", PyStr("Unknown API error"))]
    ELSE data

\* lines 70-86: what the try block returns, or the exception it raises
try_block(net) ==
    CASE net.kind = "timeout" -> [raised |-> "TimeoutException", text |-> net.text]
      [] net.kind = "exception" -> [raised |-> "Exception", text |-> net.text]
      [] net.kind = "list" -> [raised |-> "Exception", text |-> net.text]
      [] net.kind = "dict" -> [raised |-> "", value |-> check_api_error(net.body)]

\* faulty variant of except_clauses: no clause of its own for a timeout
except_clauses_generic(r) ==
    CASE r.raised = "" -> r.value
      [] OTHER -> [error |-> PyStr(r.text)]

\* lines 87-90: the except clauses
except_clauses(r) ==
    CASE r.raised = "" -> r.value
      [] r.raised = "TimeoutException" -> [error |-> PyStr("Query timed out after 30 seconds")]
      [] OTHER -> [error |-> PyStr(r.text)]

\* faulty variant of query_berdl: the denylist is checked before the credential
query_berdl_denylist_first(sql, net) ==
    LET token == getenv("KB_AUTH_TOKEN")
    IN IF denylisted(sql)
       THEN [ret |-> [error |-> PyStr("Only SELECT queries are allowed")],
             raises |-> FALSE, http |-> <<>>, llm |-> <<>>]
       ELSE IF ~Truthy(token)
       THEN [ret |-> [error |-> PyStr("KB_AUTH_TOKEN not set in .env")],
             raises |-> FALSE, http |-> <<>>, llm |-> <<>>]
       ELSE [ret |-> except_clauses(try_block(net)),
             raises |-> FALSE, http |-> <<post_request(sql, token)>>, llm |-> <<>>]

query_berdl(sql, net) ==
    LET token == getenv("KB_AUTH_TOKEN")
    IN IF ~Truthy(token)
       THEN [ret |-> [error |-> PyStr("KB_AUTH_TOKEN not set in .env")],
             raises |-> FALSE, http |-> <<>>, llm |-> <<>>]
       ELSE IF denylisted(sql)
       THEN [ret |-> [error |-> PyStr("Only SELECT queries are allowed")],
             raises |-> FALSE, http |-> <<>>, llm |-> <<>>]
       ELSE [ret |-> except_clauses(try_block(net)),
             raises |-> FALSE, http |-> <<post_request(sql, token)>>, llm |-> <<>>]

-----------------------------------------------------------------------------
(* generate_sql, lines 93-110 *)

SENTINEL_SQL == "-- Error: ANTHROPIC_API_KEY not set"

generate_sql(user_question, reply) ==
    LET api_key == getenv("ANTHROPIC_API_KEY")
        request == [fn |-> "generate_sql",
                    model |-> MODEL_ID,
                    max_tokens |-> GENERATE_MAX_TOKENS,
                    system |-> SCHEMA_CONTEXT,
                    content |-> "Write a SQL query to answer: " \o user_question]
    IN IF ~Truthy(api_key)
       THEN [ret |-> SENTINEL_SQL, raises |-> FALSE, http |-> <<>>, llm |-> <<>>]
       ELSE IF reply.kind = "raise"
       THEN [ret |-> "", raises |-> TRUE, http |-> <<>>, llm |-> <<request>>]
       ELSE [ret |-> strip(reply.text), raises |-> FALSE, http |-> <<>>, llm |-> <<request>>]

-----------------------------------------------------------------------------
(* explain_results, lines 113-146 *)

QUERY_FAILED == "**Query failed:** "

\* faulty variant of result_sample: all rows, not the first ten
result_sample_unsliced(results) == get(results, "result", <<>>)

\* lines 124-126: the row sample and the total shown to the language model
result_sample(results) == Prefix(get(results, "result", <<>>), SAMPLE_ROWS)

total_rows(results) ==
    get(get(results, "pagination", [k \in {} |-> 0]), "total_count",
        Len(get(results, "result", <<>>)))

\* lines 134-141
explain_prompt(question, sql, results) ==
    "The user asked: \"" \o question \o "\"\n\nI ran this SQL: " \o sql
    \o "\n\nResults (" \o ToString(total_rows(results))
    \o " rows total, showing first 10):\n" \o ReprRows(result_sample(results))
    \o "\n\nExplain what we found in 2-3 sentences. Be specific about numbers and findings."

\* faulty variant of explain_results: an envelope with an error is explained too
explain_results_unchecked(question, sql, results, reply) ==
    LET api_key == getenv("ANTHROPIC_API_KEY")
        request == [fn |-> "explain_results",
                    model |-> MODEL_ID,
                    max_tokens |-> EXPLAIN_MAX_TOKENS,
                    system |-> "",
                    content |-> explain_prompt(question, sql, results)]
    IN IF ~Truthy(api_key)
       THEN [ret |-> "Error: ANTHROPIC_API_KEY not set",
             raises |-> FALSE, http |-> <<>>, llm |-> <<>>]
       ELSE IF reply.kind = "raise"
       THEN [ret |-> "", raises |-> TRUE, http |-> <<>>, llm |-> <<request>>]
       ELSE [ret |-> strip(reply.text), raises |-> FALSE, http |-> <<>>, llm |-> <<request>>]

explain_results(question, sql, results, reply) ==
    LET api_key == getenv("ANTHROPIC_API_KEY")
        request == [fn |-> "explain_results",
                    model |-> MODEL_ID,
                    max_tokens |-> EXPLAIN_MAX_TOKENS,
                    system |-> "",
                    content |-> explain_prompt(question, sql, results)]
    IN IF ~Truthy(api_key)
       THEN [ret |-> "Error: ANTHROPIC_API_KEY not set",
             raises |-> FALSE, http |-> <<>>, llm |-> <<>>]
       ELSE IF "error" \in DOMAIN results
       THEN [ret |-> QUERY_FAILED \o str(results.error),
             raises |-> FALSE, http |-> <<>>, llm |-> <<>>]
       ELSE IF reply.kind = "raise"
       THEN [ret |-> "", raises |-> TRUE, http |-> <<>>, llm |-> <<request>>]
       ELSE [ret |-> strip(reply.text), raises |-> FALSE, http |-> <<>>, llm |-> <<request>>]

-----------------------------------------------------------------------------
(* Direct applications of the three functions, each on inputs drawn from   *)
(* the sets below; the application and its result are kept in call.  A     *)
(* behaviour of SpecFn is one environment and one application.             *)

PROBE_SQL == "SELECT 1 as test"

Questions == {"hi?", examples[2]}

Sqls == SqlTexts \cup {strip(t) : t \in SqlTexts} \cup {SENTINEL_SQL, PROBE_SQL}

\* envelopes explain_results may be given: all that query_berdl returns, and
\* the decoded bodies themselves
Envelopes ==
    {except_clauses(try_block(net)) : net \in NetOutcomes}
    \cup {[error |-> PyStr("KB_AUTH_TOKEN not set in .env")],
          [error |-> PyStr("Only SELECT queries are allowed")]}
    \cup Bodies

NoNet == [kind |-> "none", text |-> ""]

NoReply == [kind |-> "none", text |-> ""]

NoCall == [fn |-> "none", question |-> "", sql |-> "", results |-> EmptyDict,
           net |-> NoNet, reply |-> NoReply,
           out |-> [ret |-> "", raises |-> FALSE, http |-> <<>>, llm |-> <<>>]]

call_query_berdl ==
    /\ call = NoCall
    /\ \E sql \in Sqls, net \in NetOutcomes :
          call' = [NoCall EXCEPT !.fn = "query_berdl", !.sql = sql, !.net = net,
                                 !.out = query_berdl(sql, net)]
    /\ UNCHANGED <<environ, input_value, chat, status_dot, status_text,
                   timer_pending, frames, turns, faults>>

call_generate_sql ==
    /\ call = NoCall
    /\ \E question \in Questions, reply \in LlmOutcomes(SqlTexts) :
          call' = [NoCall EXCEPT !.fn = "generate_sql", !.question = question,
                                 !.reply = reply,
                                 !.out = generate_sql(question, reply)]
    /\ UNCHANGED <<environ, input_value, chat, status_dot, status_text,
                   timer_pending, frames, turns, faults>>

call_explain_results ==
    /\ call = NoCall
    /\ \E question \in Questions, sql \in Sqls, results \in Envelopes,
          reply \in LlmOutcomes(ExplainTexts) :
          call' = [NoCall EXCEPT !.fn = "explain_results", !.question = question,
                                 !.sql = sql, !.results = results, !.reply = reply,
                                 !.out = explain_results(question, sql, results, reply)]
    /\ UNCHANGED <<environ, input_value, chat, status_dot, status_text,
                   timer_pending, frames, turns, faults>>

-----------------------------------------------------------------------------
(* The interface, lines 149-237.  Handlers are plain functions run by the  *)
(* event loop, one at a time to completion; a handler is blocked while one *)
(* of its outbound calls is in progress.  frames holds each running        *)
(* handler with its locals: pc names the call in progress (or the          *)
(* statement reached), done the calls that have returned, http and llm the *)
(* requests issued so far.                                                 *)

\* what the outside world does during a turn
TurnSqlTexts == {"  select 1\n", "drop table t"}

TurnExplainTexts == {"We found 42 samples."}

TurnNetOutcomes ==
    {[kind |-> "timeout", text |-> "The read operation timed out"],
     [kind |-> "dict", body |-> [result |-> Rows(1), pagination |-> [total_count |-> 1]]],
     [kind |-> "dict", body |-> [error |-> PyBool(TRUE), message |-> PyStr("table not found")]],
     [kind |-> "dict", body |-> [error |-> PyNone, result |-> Rows(1)]]}

\* what the user may type into the input field
TypedTexts == {"", " \t", "hi?"}

\* the example shortcuts the user may click, as indexes into examples
ClickedExamples == {2}

\* a child of chat_container; sql is the code of its "Show SQL" panel, "" without one
Card(turn, role, content, sql) ==
    [turn |-> turn, role |-> role, content |-> content, sql |-> sql]

\* lines 175-185
add_message(log, turn, role, content, sql) ==
    Append(log, Card(turn, role, content, IF role = "user" THEN "" ELSE sql))

\* lines 196-200
loading_card(turn) == Card(turn, "loading", "Thinking...", "")

\* container.remove(card)
remove(log, card) == SelectSeq(log, LAMBDA c : c # card)

Frame(handler, turn, pc, question, sql) ==
    [handler |-> handler, turn |-> turn, pc |-> pc, question |-> question,
     sql |-> sql, results |-> EmptyDict, explanation |-> "",
     done |-> <<>>, http |-> <<>>, llm |-> <<>>]

\* the handler of frame i returns or is ended by an exception
Drop(i) == [j \in 1..(Len(frames) - 1) |-> IF j < i THEN frames[j] ELSE frames[j + 1]]

\* the event loop runs the next handler only when none is running
LoopFree == frames = <<>>

\* faulty variant of next_step: the explanation is asked for before the query runs
next_step_swapped(pc) ==
    CASE pc = "generate_sql" -> "explain_results"
      [] pc = "explain_results" -> "query_berdl"
      [] pc = "query_berdl" -> "render"

\* lines 202-213: the statement send_message reaches when a call returns
next_step(pc) ==
    CASE pc = "generate_sql" -> "query_berdl"
      [] pc = "query_berdl" -> "explain_results"
      [] pc = "explain_results" -> "render"

\* the user edits the input field
type_text ==
    /\ LoopFree
    /\ \E text \in TypedTexts : text # input_value /\ input_value' = text
    /\ UNCHANGED <<environ, chat, status_dot, status_text, timer_pending,
                   frames, turns, faults, call>>

\* lines 192-203: send_message past its blank check, up to the call of generate_sql
start_turn(question) ==
    /\ turns < MaxTurns
    /\ turns' = turns + 1
    /\ input_value' = ""
    /\ chat' = Append(add_message(chat, turns + 1, "user", question, ""),
                      loading_card(turns + 1))
    /\ frames' = Append(frames, Frame("send_message", turns + 1, "generate_sql", question, ""))
    /\ UNCHANGED <<environ, status_dot, status_text, timer_pending, faults, call>>

\* lines 187-203: Enter or the Send button
send_message ==
    /\ LoopFree
    /\ IF strip(input_value) = ""
       THEN UNCHANGED vars
       ELSE start_turn(input_value)

\* lines 215-217 and 229: an example shortcut
set_and_send ==
    /\ LoopFree
    /\ \E e \in ClickedExamples : start_turn(examples[e])

\* line 203: generate_sql returns or raises
return_generate_sql ==
    \E i \in DOMAIN frames :
        /\ frames[i].handler = "send_message"
        /\ frames[i].pc = "generate_sql"
        /\ \E reply \in LlmOutcomes(TurnSqlTexts) :
              LET f == frames[i]
                  r == generate_sql(f.question, reply)
              IN IF r.raises
                 THEN /\ frames' = Drop(i)
                      /\ faults' = faults \cup {[turn |-> f.turn, fn |-> "generate_sql"]}
                 ELSE /\ frames' = [frames EXCEPT ![i] =
                                       [f EXCEPT !.pc = next_step(f.pc),
                                                 !.sql = r.ret,
                                                 !.llm = f.llm \o r.llm,
                                                 !.done = Append(f.done, "generate_sql")]]
                      /\ UNCHANGED faults
        /\ UNCHANGED <<environ, input_value, chat, status_dot, status_text,
                       timer_pending, turns, call>>

\* lines 206 and 162: query_berdl returns
return_query_berdl ==
    \E i \in DOMAIN frames :
        /\ frames[i].pc = "query_berdl"
        /\ \E net \in TurnNetOutcomes :
              LET f == frames[i]
                  r == query_berdl(f.sql, net)
              IN frames' = [frames EXCEPT ![i] =
                               [f EXCEPT !.pc = IF f.handler = "send_message"
                                                THEN next_step(f.pc)
                                                ELSE "set_status",
                                         !.results = r.ret,
                                         !.http = f.http \o r.http,
                                         !.done = Append(f.done, "query_berdl")]]
        /\ UNCHANGED <<environ, input_value, chat, status_dot, status_text,
                       timer_pending, turns, faults, call>>

\* line 209: explain_results returns or raises
return_explain_results ==
    \E i \in DOMAIN frames :
        /\ frames[i].handler = "send_message"
        /\ frames[i].pc = "explain_results"
        /\ \E reply \in LlmOutcomes(TurnExplainTexts) :
              LET f == frames[i]
                  r == explain_results(f.question, f.sql, f.results, reply)
              IN IF r.raises
                 THEN /\ frames' = Drop(i)
                      /\ faults' = faults \cup {[turn |-> f.turn, fn |-> "explain_results"]}
                 ELSE /\ frames' = [frames EXCEPT ![i] =
                                       [f EXCEPT !.pc = next_step(f.pc),
                                                 !.explanation = r.ret,
                                                 !.llm = f.llm \o r.llm,
                                                 !.done = Append(f.done, "explain_results")]]
                      /\ UNCHANGED faults
        /\ UNCHANGED <<environ, input_value, chat, status_dot, status_text,
                       timer_pending, turns, call>>

\* lines 212-213: the loading card goes, the assistant message is added
render ==
    \E i \in DOMAIN frames :
        /\ frames[i].handler = "send_message"
        /\ frames[i].pc = "render"
        /\ chat' = add_message(remove(chat, loading_card(frames[i].turn)),
                               frames[i].turn, "assistant",
                               frames[i].explanation, frames[i].sql)
        /\ frames' = Drop(i)
        /\ UNCHANGED <<environ, input_value, status_dot, status_text,
                       timer_pending, turns, faults, call>>

\* lines 161-162 and 170: the one-shot timer fires and the probe calls query_berdl
check_connection ==
    /\ LoopFree
    /\ timer_pending
    /\ timer_pending' = FALSE
    /\ frames' = Append(frames, Frame("check_connection", 0, "query_berdl", "", PROBE_SQL))
    /\ UNCHANGED <<environ, input_value, chat, status_dot, status_text,
                   turns, faults, call>>

\* lines 163-168: the probe sets the indicator; slicing an error that is no
\* string raises after the dot has turned red
set_status ==
    \E i \in DOMAIN frames :
        /\ frames[i].handler = "check_connection"
        /\ frames[i].pc = "set_status"
        /\ LET result == frames[i].results
           IN IF "error" \in DOMAIN result
              THEN /\ status_dot' = "text-red-500"
                   /\ IF result.error.t = "str"
                      THEN /\ status_text' = "Disconnected: " \o Prefix(result.error.v, STATUS_CHARS)
                           /\ UNCHANGED faults
                      ELSE /\ faults' = faults \cup {[turn |-> 0, fn |-> "check_connection"]}
                           /\ UNCHANGED status_text
              ELSE /\ status_dot' = "text-green-500"
                   /\ status_text' = "Connected to BERDL"
                   /\ UNCHANGED faults
        /\ frames' = Drop(i)
        /\ UNCHANGED <<environ, input_value, chat, timer_pending, turns, call>>

Init ==
    /\ environ \in Environs
    /\ input_value = ""
    /\ chat = <<>>
    /\ status_dot = "text-yellow-500"
    /\ status_text = "Checking connection..."
    /\ timer_pending = TRUE
    /\ frames = <<>>
    /\ turns = 0
    /\ faults = {}
    /\ call = NoCall

\* one application of one of the three functions
NextFn == call_query_berdl \/ call_generate_sql \/ call_explain_results

SpecFn == Init /\ [][NextFn]_vars

\* one step of the interface
Next ==
    \/ type_text
    \/ send_message
    \/ set_and_send
    \/ return_generate_sql
    \/ return_query_berdl
    \/ return_explain_results
    \/ render
    \/ check_connection
    \/ set_status

Spec == Init /\ [][Next]_vars

-----------------------------------------------------------------------------
(* Properties of query_berdl, checked under SpecFn *)

\* the SQL contains, after upper-casing, one of the five keywords
HasKeyword(sql) ==
    LET text == upper(sql)
    IN \E kw \in {"DROP", "DELETE", "UPDATE", "INSERT", "ALTER"} : Contains(text, kw)

\* s begins with prefix
StartsWith(s, prefix) ==
    Len(prefix) <= Len(s) /\ SubSeq(s, 1, Len(prefix)) = prefix

\* KB_AUTH_TOKEN is set to a non-empty value
TokenSet == "KB_AUTH_TOKEN" \in DOMAIN environ /\ environ["KB_AUTH_TOKEN"] # ""

\* ANTHROPIC_API_KEY is set to a non-empty value
ApiKeySet == "ANTHROPIC_API_KEY" \in DOMAIN environ /\ environ["ANTHROPIC_API_KEY"] # ""

\* C1: for every SQL string that contains, after upper-casing, DROP, DELETE,
\* UPDATE, INSERT or ALTER anywhere, query_berdl returns an error envelope
\* and issues no HTTP request, whether or not KB_AUTH_TOKEN is set.
C1_DenylistedSqlIsRejectedWithoutRequest ==
    (call.fn = "query_berdl" /\ HasKeyword(call.sql))
        => /\ DOMAIN call.out.ret = {"error"}
           /\ call.out.http = <<>>
           /\ ~call.out.raises

\* a keyword inside an identifier, in lower case, with the credential set
C1_Witness ==
    /\ call.fn = "query_berdl"
    /\ call.sql = "select updated_at from t"
    /\ TokenSet
    /\ call.net.kind = "dict"
    /\ call.out.ret = [error |-> PyStr("Only SELECT queries are allowed")]
    /\ call.out.http = <<>>

\* C2: for every SQL input, denylisted or not, if KB_AUTH_TOKEN is unset or
\* empty query_berdl returns exactly {"error": "KB_AUTH_TOKEN not set in .env"}
\* and attempts no HTTP request: the credential check comes first.
C2_MissingTokenShortCircuits ==
    (call.fn = "query_berdl" /\ ~TokenSet)
        => /\ call.out.ret = [error |-> PyStr("KB_AUTH_TOKEN not set in .env")]
           /\ call.out.http = <<>>
           /\ ~call.out.raises

\* an empty credential and a denylisted SQL string
C2_Witness ==
    /\ call.fn = "query_berdl"
    /\ "KB_AUTH_TOKEN" \in DOMAIN environ
    /\ environ["KB_AUTH_TOKEN"] = ""
    /\ HasKeyword(call.sql)
    /\ call.out.ret = [error |-> PyStr("KB_AUTH_TOKEN not set in .env")]

\* C5: when both pre-checks pass and the HTTP call times out, query_berdl
\* returns exactly {"error": "Query timed out after 30 seconds"}; when the
\* call or the decoding raises any other exception it returns {"error":
\* str(exception)}; no exception escapes and at most one request is issued.
C5_TransportFailuresBecomeEnvelopes ==
    call.fn = "query_berdl"
        => /\ ~call.out.raises
           /\ Len(call.out.http) <= 1
           /\ (TokenSet /\ ~HasKeyword(call.sql) /\ call.net.kind = "timeout")
                 => /\ call.out.ret = [error |-> PyStr("Query timed out after 30 seconds")]
                    /\ Len(call.out.http) = 1
           /\ (TokenSet /\ ~HasKeyword(call.sql) /\ call.net.kind \in {"exception", "list"})
                 => /\ call.out.ret = [error |-> PyStr(call.net.text)]
                    /\ Len(call.out.http) = 1

\* the one request of a call that timed out
C5_Witness ==
    /\ call.fn = "query_berdl"
    /\ call.net.kind = "timeout"
    /\ Len(call.out.http) = 1
    /\ call.out.http[1].query = call.sql
    /\ call.out.http[1].timeout = QUERY_TIMEOUT
    /\ call.out.ret = [error |-> PyStr("Query timed out after 30 seconds")]

\* C6: if the decoded body's error or error_type is truthy, query_berdl
\* returns an envelope whose only key is error, holding the body's message
\* or "Unknown API error"; otherwise it returns the body unchanged; so every
\* envelope it returns is a single-field error envelope or has no error key.
C6_EnvelopeIsErrorOrSuccess ==
    (call.fn = "query_berdl" /\ Len(call.out.http) = 1 /\ call.net.kind = "dict")
        => LET body == call.net.body
               flagged == \/ ("error" \in DOMAIN body /\ Truthy(body.error))
                          \/ ("error_type" \in DOMAIN body /\ Truthy(body.error_type))
               ret == call.out.ret
           IN /\ flagged /\ "message" \in DOMAIN body => ret = [error |-> body.message]
              /\ flagged /\ "message" \notin DOMAIN body
                    => ret = [error |-> PyStr("Unknown API error")]
              /\ ~flagged => ret = body
              /\ DOMAIN ret = {"error"} \/ "error" \notin DOMAIN ret

-----------------------------------------------------------------------------
(* Properties of explain_results, checked under SpecFn *)

\* C3 as stated: for every envelope with an error key and every credential
\* configuration, explain_results never calls the language model and returns
\* a string that begins with "**Query failed:** " and contains the error.
C3_ErrorEnvelopeAlwaysReportsQueryFailed ==
    (call.fn = "explain_results" /\ "error" \in DOMAIN call.results)
        => /\ call.out.llm = <<>>
           /\ StartsWith(call.out.ret, "**Query failed:** ")
           /\ Contains(call.out.ret, str(call.results.error))

\* C3 amended: for every envelope with an error key explain_results never
\* calls the language model and does not raise; with ANTHROPIC_API_KEY set
\* it returns "**Query failed:** " followed by the error, and with the key
\* unset or empty it returns "Error: ANTHROPIC_API_KEY not set".
C3_ErrorEnvelopeIsNeverExplained ==
    (call.fn = "explain_results" /\ "error" \in DOMAIN call.results)
        => /\ call.out.llm = <<>>
           /\ ~call.out.raises
           /\ ApiKeySet
                 => /\ StartsWith(call.out.ret, "**Query failed:** ")
                    /\ call.out.ret = "**Query failed:** " \o str(call.results.error)
           /\ ~ApiKeySet => call.out.ret = "Error: ANTHROPIC_API_KEY not set"

\* an error envelope, the key set, and a language model that would fail
C3_Witness ==
    /\ call.fn = "explain_results"
    /\ ApiKeySet
    /\ call.results = [error |-> PyStr("Query timed out after 30 seconds")]
    /\ call.reply.kind = "raise"
    /\ call.out.ret = "**Query failed:** Query timed out after 30 seconds"
    /\ call.out.llm = <<>>

\* the rows and the total the prompt of a successful envelope must show
ExpectedSample(results) ==
    LET rows == IF "result" \in DOMAIN results THEN results.result ELSE <<>>
        k == IF Len(rows) < 10 THEN Len(rows) ELSE 10
    IN [i \in 1..k |-> rows[i]]

ExpectedTotal(results) ==
    IF "pagination" \in DOMAIN results /\ "total_count" \in DOMAIN results.pagination
    THEN results.pagination.total_count
    ELSE IF "result" \in DOMAIN results THEN Len(results.result) ELSE 0

\* C8: for every envelope without an error key, with ANTHROPIC_API_KEY set,
\* explain_results sends the language model the first min(10, n) rows in
\* order and pagination.total_count, or n without one; 0 rows and no
\* pagination give an empty sample and a total of 0, without raising.
C8_PromptShowsFirstTenRowsAndTotal ==
    (call.fn = "explain_results" /\ "error" \notin DOMAIN call.results /\ ApiKeySet)
        => /\ Len(call.out.llm) = 1
           /\ call.out.llm[1].max_tokens = EXPLAIN_MAX_TOKENS
           /\ Contains(call.out.llm[1].content,
                       "Results (" \o ToString(ExpectedTotal(call.results))
                       \o " rows total, showing first 10):\n"
                       \o ReprRows(ExpectedSample(call.results))
                       \o "\n\nExplain")
           /\ call.reply.kind = "text" => ~call.out.raises
           /\ (get(call.results, "result", <<>>) = <<>> /\ "pagination" \notin DOMAIN call.results)
                 => Contains(call.out.llm[1].content,
                             "Results (0 rows total, showing first 10):\n[]\n")

\* more rows than the sample holds, and no pagination
C8_Witness ==
    /\ call.fn = "explain_results"
    /\ ApiKeySet
    /\ call.results = [result |-> Rows(MaxRows)]
    /\ Len(call.out.llm) = 1
    /\ Contains(call.out.llm[1].content, ToString(MaxRows) \o " rows total")
    /\ Contains(call.out.llm[1].content, "{'count': 10}]")
    /\ call.out.ret = "There are 3 kingdoms."

-----------------------------------------------------------------------------
(* Properties of a turn, checked under Spec *)

\* the frames of running turns
TurnFrames == {frames[i] : i \in {j \in DOMAIN frames : frames[j].handler = "send_message"}}

\* the assistant messages of turn t in the conversation log
AssistantCards(t) == {k \in DOMAIN chat : chat[k].turn = t /\ chat[k].role = "assistant"}

\* the order of the three steps of a turn
StepOrder == <<"generate_sql", "query_berdl", "explain_results">>

\* the calls that have returned when a turn is at pc
ReturnedBefore(pc) ==
    CASE pc = "generate_sql" -> <<>>
      [] pc = "query_berdl" -> SubSeq(StepOrder, 1, 1)
      [] pc = "explain_results" -> SubSeq(StepOrder, 1, 2)
      [] pc = "render" -> StepOrder

\* in every state: at most one step in progress, each turn where the order
\* puts it, its requests made of what the earlier steps returned
TurnInOrder ==
    /\ Cardinality({i \in DOMAIN frames : /\ frames[i].handler = "send_message"
                                          /\ frames[i].pc # "render"}) <= 1
    /\ \A f \in TurnFrames :
          /\ f.done = ReturnedBefore(f.pc)
          /\ AssistantCards(f.turn) = {}
          /\ \A k \in DOMAIN f.http :
                /\ f.http[k].query = f.sql
                /\ f.done # <<>>
                /\ f.done[1] = "generate_sql"
          /\ \A k \in DOMAIN f.llm :
                f.llm[k].fn = "explain_results"
                    => /\ Len(f.done) >= 2
                       /\ f.done[2] = "query_berdl"
                       /\ f.llm[k].content = explain_prompt(f.question, f.sql, f.results)

\* in every step: an assistant message is added only by a turn whose three
\* steps have returned, and shows that turn's explanation and SQL
AssistantCardComesLast ==
    \A k \in DOMAIN chat' :
        (chat'[k].role = "assistant" /\ AssistantCards(chat'[k].turn) = {})
            => \E f \in TurnFrames :
                  /\ f.turn = chat'[k].turn
                  /\ f.pc = "render"
                  /\ f.done = StepOrder
                  /\ chat'[k].content = f.explanation
                  /\ chat'[k].sql = f.sql

\* C7: within every turn the steps run strictly in the order generate_sql,
\* query_berdl, explain_results, render; query_berdl is given the SQL that
\* generate_sql returned, explain_results the envelope query_berdl returned,
\* the SQL panel shows that SQL; no two steps are ever in progress at once.
C7_StepsRunInSequence == []TurnInOrder /\ [][AssistantCardComesLast]_vars

\* a second turn about to render after a query and an explanation by the
\* language model, the first turn's answer already in the log
C7_Witness ==
    /\ Len(frames) = 1
    /\ frames[1].handler = "send_message"
    /\ frames[1].turn = 2
    /\ frames[1].pc = "render"
    /\ Len(frames[1].http) = 1
    /\ Len(frames[1].llm) = 2
    /\ AssistantCards(1) # {}

\* C4: every turn started by send_message with a non-blank question produces
\* exactly one explanation and renders it as one assistant message, whatever
\* the outcome of the three steps.
C4_EveryTurnEndsWithOneAssistantMessage ==
    \A t \in 1..turns :
        (\A f \in TurnFrames : f.turn # t) => Cardinality(AssistantCards(t)) = 1

\* C9: with ANTHROPIC_API_KEY unset the turn short-circuits: the data service
\* is only ever sent SQL that the language model produced, or the probe's
\* fixed "SELECT 1 as test".
C9_OnlyGeneratedSqlReachesTheService ==
    \A i \in DOMAIN frames :
        \A k \in DOMAIN frames[i].http :
            \/ /\ frames[i].handler = "check_connection"
               /\ frames[i].http[k].query = PROBE_SQL
            \/ /\ frames[i].handler = "send_message"
               /\ \E j \in DOMAIN frames[i].llm : frames[i].llm[j].fn = "generate_sql"
               /\ frames[i].http[k].query # SENTINEL_SQL

\* C10: whenever no turn is in progress the conversation log holds no
\* loading placeholder and is made of user/assistant pairs in submission
\* order, each user message followed by its own assistant message.
C10_IdleLogIsPairs ==
    TurnFrames = {}
        => /\ \A k \in DOMAIN chat : chat[k].role # "loading"
           /\ Len(chat) = 2 * turns
           /\ \A t \in 1..turns :
                 /\ chat[2 * t - 1].role = "user" /\ chat[2 * t - 1].turn = t
                 /\ chat[2 * t].role = "assistant" /\ chat[2 * t].turn = t

=============================================================================
